---- MODULE Spec2Model ----
(***************************************************************************)
(* Span-properties sampling policy (package sampling, spanPropertiesFilter)*)
(* of the tail-sampling processor: construction, Evaluate over a trace    *)
(* aggregate that an ingestion path appends to concurrently, and the      *)
(* three hooks OnLateArrivingSpans, EvaluateSecondChance, OnDroppedSpans. *)
(***************************************************************************)
EXTENDS Integers, Sequences, FiniteSets, TLC

(* ------------------------------------------------------------------ *)
(* Bounds and input universes                                          *)
(* ------------------------------------------------------------------ *)

\* Largest number of batches the ingestion path appends to the aggregate.
MaxBatches == 2

\* Go pointers and nilable values: the nil pointer, a pointer to x, and the
\* value pointed to.  NoErr is the nil error, NoDecision "nothing returned".
Nil == <<>>
Ptr(x) == <<x>>
Deref(p) == p[1]
NoErr == "nil"
NoDecision == "none"
Free == "free"

Sampled == "Sampled"
NotSampled == "NotSampled"
Decisions == {Sampled, NotSampled}

\* timestamp.Timestamp{Seconds, Nanos}
Ts(s, n) == [Seconds |-> s, Nanos |-> n]

\* tracepb.Span values the ingestion path delivers (Name.Value kept as a
\* sequence of characters so that the pattern match is computed).
SpanA == [Name |-> <<"G", "a">>,      StartTime |-> Ts(0, 0),     EndTime |-> Ts(0, 100000)]
SpanB == [Name |-> <<"g", "b">>,      StartTime |-> Ts(0, 50999), EndTime |-> Ts(0, 300000)]
SpanD == [Name |-> <<"x", "G", "a">>, StartTime |-> Ts(1, 0),     EndTime |-> Ts(1, 250)]
SpanE == [Name |-> <<"g", "a">>,      StartTime |-> Ts(0, 0),     EndTime |-> Ts(0, 300999)]

\* Batches (a batch carries Spans; entries may be nil).
Batch(spans) == [Spans |-> spans]
BatchA == Batch(<<Ptr(SpanA)>>)
BatchB == Batch(<<Ptr(SpanB)>>)
BatchDBA == Batch(<<Ptr(SpanD), Ptr(SpanB), Ptr(SpanA)>>)
BatchNE == Batch(<<Nil, Ptr(SpanE)>>)
BatchPool == {BatchA, BatchB, BatchDBA, BatchNE}

\* operationNamePattern arguments: absent, two valid patterns, one that
\* does not compile.
PatLiteral  == <<"G", "a">>
PatAnchored == <<"^", "g", "b", "$">>
PatInvalid  == <<"(">>
PatternArgs == {Nil, Ptr(PatLiteral), Ptr(PatAnchored), Ptr(PatInvalid)}
MinDurationArgs == {Nil, Ptr(300), Ptr(301)}
MinSpansArgs == {Nil, Ptr(2)}

ErrNoProperty == "at least one property must be defined"
ErrMissingParen == "error parsing regexp: missing closing )"

(* ------------------------------------------------------------------ *)
(* Pure helpers                                                        *)
(* ------------------------------------------------------------------ *)

\* Go integer division truncates toward zero.
Quot(a, b) == IF a >= 0 THEN a \div b ELSE -((-a) \div b)

\* tsToMicros: ts.Seconds*1000000 + int64(ts.Nanos/1000)
tsToMicros(ts) == ts.Seconds * 1000000 + Quot(ts.Nanos, 1000)

CountTok(p, t) == Cardinality({i \in 1..Len(p) : p[i] = t})

\* regexp.Compile on the fragment literal characters, ^, $, ( and ):
\* an unbalanced parenthesis is the compile error.
Compile(p) ==
    IF CountTok(p, "(") # CountTok(p, ")")
    THEN [re |-> Nil, err |-> ErrMissingParen]
    ELSE [re |-> Ptr(p), err |-> NoErr]

\* (*Regexp).MatchString: unanchored search of the literal, pinned to the
\* start by a leading ^ and to the end by a trailing $.
MatchString(re, s) ==
    LET atStart == Len(re) > 0 /\ re[1] = "^"
        atEnd   == Len(re) > 0 /\ re[Len(re)] = "$"
        lo      == IF atStart THEN 2 ELSE 1
        hi      == IF atEnd THEN Len(re) - 1 ELSE Len(re)
        lit     == SubSeq(re, lo, hi)
        n       == Len(lit)
    IN \E i \in 1..(Len(s) - n + 1) :
          /\ SubSeq(s, i, i + n - 1) = lit
          /\ atStart => i = 1
          /\ atEnd => i + n - 1 = Len(s)

\* Variant: the "nothing configured" test looks at the two thresholds only.
NewSpanPropertiesFilter_thresholdsOnly(operationNamePattern, minDurationMicros, minNumberOfSpans) ==
    LET c == IF operationNamePattern # Nil
             THEN Compile(Deref(operationNamePattern))
             ELSE [re |-> Nil, err |-> NoErr]
    IN IF operationNamePattern # Nil /\ c.err # NoErr
       THEN [evaluator |-> Nil, err |-> c.err]
       ELSE IF minDurationMicros = Nil /\ minNumberOfSpans = Nil
       THEN [evaluator |-> Nil, err |-> ErrNoProperty]
       ELSE [evaluator |-> Ptr([operationRe |-> c.re,
                                minDurationMicros |-> minDurationMicros,
                                minNumberOfSpans |-> minNumberOfSpans]),
             err |-> NoErr]

\* NewSpanPropertiesFilter: the returned (PolicyEvaluator, error) pair.
NewSpanPropertiesFilter(operationNamePattern, minDurationMicros, minNumberOfSpans) ==
    LET c == IF operationNamePattern # Nil
             THEN Compile(Deref(operationNamePattern))
             ELSE [re |-> Nil, err |-> NoErr]
    IN IF operationNamePattern # Nil /\ c.err # NoErr
       THEN [evaluator |-> Nil, err |-> c.err]
       ELSE IF operationNamePattern = Nil /\ minDurationMicros = Nil
               /\ minNumberOfSpans = Nil
       THEN [evaluator |-> Nil, err |-> ErrNoProperty]
       ELSE [evaluator |-> Ptr([operationRe |-> c.re,
                                minDurationMicros |-> minDurationMicros,
                                minNumberOfSpans |-> minNumberOfSpans]),
             err |-> NoErr]

\* Evaluate, lines 84-87: the scan's locals.
ScanInit ==
    [matchingOperationFound |-> FALSE, spanCount |-> 0,
     minStartTime |-> 0, maxEndTime |-> 0]

\* Variant: the name test lacks the !matchingOperationFound guard, so the
\* last span tested decides.
ScanSpan_lastWins(f, st, span) ==
    IF span = Nil THEN st
    ELSE
      LET found ==
            IF f.operationRe # Nil
            THEN MatchString(Deref(f.operationRe), Deref(span).Name)
            ELSE st.matchingOperationFound
          startTs == tsToMicros(Deref(span).StartTime)
          endTs == tsToMicros(Deref(span).EndTime)
          window ==
            IF f.minDurationMicros = Nil
            THEN <<st.minStartTime, st.maxEndTime>>
            ELSE IF st.minStartTime = 0
            THEN <<startTs, endTs>>
            ELSE << IF startTs < st.minStartTime THEN startTs ELSE st.minStartTime,
                    IF endTs > st.maxEndTime THEN endTs ELSE st.maxEndTime >>
      IN [st EXCEPT !.matchingOperationFound = found,
                    !.minStartTime = window[1],
                    !.maxEndTime = window[2]]

\* Evaluate, lines 93-118: the inner loop body for one span.
ScanSpan(f, st, span) ==
    IF span = Nil THEN st
    ELSE
      LET found ==
            IF f.operationRe # Nil /\ ~st.matchingOperationFound
            THEN MatchString(Deref(f.operationRe), Deref(span).Name)
            ELSE st.matchingOperationFound
          startTs == tsToMicros(Deref(span).StartTime)
          endTs == tsToMicros(Deref(span).EndTime)
          window ==
            IF f.minDurationMicros = Nil
            THEN <<st.minStartTime, st.maxEndTime>>
            ELSE IF st.minStartTime = 0
            THEN <<startTs, endTs>>
            ELSE << IF startTs < st.minStartTime THEN startTs ELSE st.minStartTime,
                    IF endTs > st.maxEndTime THEN endTs ELSE st.maxEndTime >>
      IN [st EXCEPT !.matchingOperationFound = found,
                    !.minStartTime = window[1],
                    !.maxEndTime = window[2]]

RECURSIVE ScanSpans(_, _, _, _)
ScanSpans(f, st, spans, i) ==
    IF i > Len(spans) THEN st
    ELSE ScanSpans(f, ScanSpan(f, st, spans[i]), spans, i + 1)

\* Evaluate, lines 89-120: one iteration of the outer loop.
ScanBatch(f, st, batch) ==
    ScanSpans(f, [st EXCEPT !.spanCount = st.spanCount + Len(batch.Spans)],
              batch.Spans, 1)

\* Evaluate, lines 122-124: the flags default to true.
CondInit ==
    [operationNameConditionMet |-> TRUE, minDurationConditionMet |-> TRUE,
     minSpanCountConditionMet |-> TRUE]

\* Evaluate, lines 122-138: the three "condition met" flags.
Conditions(f, st) ==
    [operationNameConditionMet |->
        IF f.operationRe # Nil THEN st.matchingOperationFound ELSE TRUE,
     minDurationConditionMet |->
        IF f.minDurationMicros # Nil
        THEN st.maxEndTime > st.minStartTime
             /\ st.maxEndTime - st.minStartTime >= Deref(f.minDurationMicros)
        ELSE TRUE,
     minSpanCountConditionMet |->
        IF f.minNumberOfSpans # Nil
        THEN st.spanCount >= Deref(f.minNumberOfSpans)
        ELSE TRUE]

\* Variant: the three flags are joined by "or".
Verdict_anyCriterion(c) ==
    IF c.minDurationConditionMet \/ c.operationNameConditionMet
       \/ c.minSpanCountConditionMet
    THEN [decision |-> Sampled, err |-> NoErr]
    ELSE [decision |-> NotSampled, err |-> NoErr]

\* Evaluate, lines 140-144: the returned (Decision, error) pair.
Verdict(c) ==
    IF c.minDurationConditionMet /\ c.operationNameConditionMet
       /\ c.minSpanCountConditionMet
    THEN [decision |-> Sampled, err |-> NoErr]
    ELSE [decision |-> NotSampled, err |-> NoErr]

RECURSIVE ScanBatches(_, _, _, _)
ScanBatches(f, st, bs, i) ==
    IF i > Len(bs) THEN st
    ELSE ScanBatches(f, ScanBatch(f, st, bs[i]), bs, i + 1)

\* Evaluate run to completion on a fixed batch list.
EvaluateSeq(f, bs) == Verdict(Conditions(f, ScanBatches(f, ScanInit, bs, 1)))

\* Variant: the second chance evaluates the aggregate again.
SecondChanceResult_reevaluates(f, bs) == EvaluateSeq(f, bs)

\* EvaluateSecondChance, lines 70-72: the returned (Decision, error) pair.
SecondChanceResult(f, bs) == [decision |-> NotSampled, err |-> NoErr]

\* OnDroppedSpans, lines 149-151: the returned (Decision, error) pair.
DroppedResult(f, bs) == [decision |-> NotSampled, err |-> NoErr]

\* OnLateArrivingSpans, lines 65-67: the returned error.
LateResult(earlyDecision, spans) == NoErr

(* ------------------------------------------------------------------ *)
(* State                                                               *)
(* ------------------------------------------------------------------ *)
VARIABLES
    args,             \* arguments NewSpanPropertiesFilter was called with
    df,               \* the constructed *spanPropertiesFilter, or Nil
    newErr,           \* the error NewSpanPropertiesFilter returned
    ReceivedBatches,  \* trace.ReceivedBatches
    mutex,            \* holder of the TraceData lock: Free, "eval", "ingest"
    pc,               \* position of the Evaluate call
    batches,          \* Evaluate's local batches
    bi,               \* index of the outer range loop
    scan,             \* Evaluate's scan locals
    cond,             \* Evaluate's three condition flags
    result,           \* what Evaluate returned: (Decision, error)
    hook              \* last hook call and what it returned

vars == <<args, df, newErr, ReceivedBatches, mutex, pc, batches, bi, scan,
          cond, result, hook>>

evalVars == <<pc, batches, bi, scan, cond, result>>

NoResult == [decision |-> NoDecision, err |-> NoErr]
NoHook == [op |-> "none", decision |-> NoDecision, err |-> NoErr, tick |-> FALSE]

Init ==
    /\ args = Nil
    /\ df = Nil
    /\ newErr = NoErr
    /\ ReceivedBatches = <<>>
    /\ mutex = Free
    /\ pc = "idle"
    /\ batches = <<>>
    /\ bi = 0
    /\ scan = ScanInit
    /\ cond = CondInit
    /\ result = NoResult
    /\ hook = NoHook

(* ------------------------------------------------------------------ *)
(* Actions                                                             *)
(* ------------------------------------------------------------------ *)

\* The caller constructs the policy once: NewSpanPropertiesFilter, lines 39-59.
Construct ==
    /\ args = Nil
    /\ \E p \in PatternArgs, d \in MinDurationArgs, n \in MinSpansArgs :
          LET r == NewSpanPropertiesFilter(p, d, n)
          IN /\ args' = Ptr([operationNamePattern |-> p, minDurationMicros |-> d,
                             minNumberOfSpans |-> n])
             /\ df' = r.evaluator
             /\ newErr' = r.err
    /\ UNCHANGED <<ReceivedBatches, mutex, evalVars, hook>>

\* Ingestion path: trace.Lock()
IngestLock ==
    /\ mutex = Free
    /\ Len(ReceivedBatches) < MaxBatches
    /\ mutex' = "ingest"
    /\ UNCHANGED <<args, df, newErr, ReceivedBatches, evalVars, hook>>

\* Ingestion path: append one batch, trace.Unlock()
IngestAppend ==
    /\ mutex = "ingest"
    /\ \E b \in BatchPool : ReceivedBatches' = Append(ReceivedBatches, b)
    /\ mutex' = Free
    /\ UNCHANGED <<args, df, newErr, evalVars, hook>>

\* Evaluate line 80: trace.Lock()
EvalLock ==
    /\ df # Nil
    /\ pc \in {"idle", "done"}
    /\ mutex = Free
    /\ mutex' = "eval"
    /\ pc' = "locked"
    /\ batches' = <<>>
    /\ bi' = 0
    /\ scan' = ScanInit
    /\ cond' = CondInit
    /\ result' = NoResult
    /\ UNCHANGED <<args, df, newErr, ReceivedBatches, hook>>

\* Evaluate line 81: batches := trace.ReceivedBatches
EvalCopy ==
    /\ pc = "locked"
    /\ batches' = ReceivedBatches
    /\ pc' = "copied"
    /\ UNCHANGED <<args, df, newErr, ReceivedBatches, mutex, bi, scan, cond,
                   result, hook>>

\* Variant: the unlock is deferred to the return of Evaluate.
EvalUnlock_heldToReturn ==
    /\ pc = "copied"
    /\ pc' = "scan"
    /\ bi' = 1
    /\ scan' = ScanInit
    /\ UNCHANGED <<args, df, newErr, ReceivedBatches, mutex, batches, cond,
                   result, hook>>

\* Evaluate lines 82-87: trace.Unlock(), then the locals.
EvalUnlock ==
    /\ pc = "copied"
    /\ mutex' = Free
    /\ pc' = "scan"
    /\ bi' = 1
    /\ scan' = ScanInit
    /\ UNCHANGED <<args, df, newErr, ReceivedBatches, batches, cond, result,
                   hook>>

\* Variant: the loop ranges over the shared list, not over the copy.
RangeBatches_live == ReceivedBatches

\* The slice the range loop of line 89 iterates.
RangeBatches == batches

\* Evaluate lines 89-120: one batch of the outer loop.
EvalScanBatch ==
    /\ pc = "scan"
    /\ bi <= Len(RangeBatches)
    /\ scan' = ScanBatch(Deref(df), scan, RangeBatches[bi])
    /\ bi' = bi + 1
    /\ UNCHANGED <<args, df, newErr, ReceivedBatches, mutex, pc, batches, cond,
                   result, hook>>

\* Evaluate lines 122-144: the conditions and the returned decision.
EvalReturn ==
    /\ pc = "scan"
    /\ bi > Len(RangeBatches)
    /\ cond' = Conditions(Deref(df), scan)
    /\ result' = Verdict(Conditions(Deref(df), scan))
    /\ pc' = "done"
    /\ UNCHANGED <<args, df, newErr, ReceivedBatches, mutex, batches, bi, scan,
                   hook>>

\* EvaluateSecondChance, lines 70-72.
EvaluateSecondChance ==
    /\ df # Nil
    /\ LET r == SecondChanceResult(Deref(df), ReceivedBatches)
       IN hook' = [op |-> "EvaluateSecondChance", decision |-> r.decision,
                   err |-> r.err, tick |-> ~hook.tick]
    /\ UNCHANGED <<args, df, newErr, ReceivedBatches, mutex, evalVars>>

\* OnDroppedSpans, lines 149-151.
OnDroppedSpans ==
    /\ df # Nil
    /\ LET r == DroppedResult(Deref(df), ReceivedBatches)
       IN hook' = [op |-> "OnDroppedSpans", decision |-> r.decision,
                   err |-> r.err, tick |-> ~hook.tick]
    /\ UNCHANGED <<args, df, newErr, ReceivedBatches, mutex, evalVars>>

\* Variant: the late spans are stored into the aggregate.
OnLateArrivingSpans_storesSpans ==
    /\ df # Nil
    /\ Len(ReceivedBatches) < MaxBatches
    /\ \E earlyDecision \in Decisions, b \in BatchPool :
          /\ hook' = [op |-> "OnLateArrivingSpans", decision |-> NoDecision,
                      err |-> LateResult(earlyDecision, b.Spans),
                      tick |-> ~hook.tick]
          /\ ReceivedBatches' = Append(ReceivedBatches, b)
    /\ UNCHANGED <<args, df, newErr, mutex, evalVars>>

\* OnLateArrivingSpans, lines 65-67.
OnLateArrivingSpans ==
    /\ df # Nil
    /\ \E earlyDecision \in Decisions, b \in BatchPool :
          hook' = [op |-> "OnLateArrivingSpans", decision |-> NoDecision,
                   err |-> LateResult(earlyDecision, b.Spans),
                   tick |-> ~hook.tick]
    /\ UNCHANGED <<args, df, newErr, ReceivedBatches, mutex, evalVars>>

Next ==
    \/ Construct
    \/ IngestLock
    \/ IngestAppend
    \/ EvalLock
    \/ EvalCopy
    \/ EvalUnlock
    \/ EvalScanBatch
    \/ EvalReturn
    \/ EvaluateSecondChance
    \/ OnDroppedSpans
    \/ OnLateArrivingSpans

Spec == Init /\ [][Next]_vars

\* The steps a goroutine takes while it holds the lock.  At most one of
\* them is enabled at a time, the lock having one holder.
LockedStep == EvalCopy \/ EvalUnlock \/ IngestAppend

\* A goroutine that holds the lock is scheduled until it has released it.
FairSpec == Spec /\ WF_vars(LockedStep)

(* ------------------------------------------------------------------ *)
(* Reference notions the properties are stated with                    *)
(* ------------------------------------------------------------------ *)

RECURSIVE Flatten(_, _)
\* All span entries of batches i.. of bs, in order.
Flatten(bs, i) ==
    IF i > Len(bs) THEN <<>> ELSE bs[i].Spans \o Flatten(bs, i + 1)

IsNonNil(sp) == sp # Nil

\* The non-null spans over all batches of bs.
NonNilSpans(bs) == SelectSeq(Flatten(bs, 1), IsNonNil)

StartsOf(bs) ==
    {tsToMicros(Deref(NonNilSpans(bs)[i]).StartTime) : i \in 1..Len(NonNilSpans(bs))}
EndsOf(bs) ==
    {tsToMicros(Deref(NonNilSpans(bs)[i]).EndTime) : i \in 1..Len(NonNilSpans(bs))}
SetMin(S) == CHOOSE x \in S : \A y \in S : x <= y
SetMax(S) == CHOOSE x \in S : \A y \in S : x >= y

\* maxEnd > minStart and maxEnd - minStart >= T over the non-null spans.
WindowAtLeast(bs, T) ==
    /\ NonNilSpans(bs) # <<>>
    /\ SetMax(EndsOf(bs)) > SetMin(StartsOf(bs))
    /\ SetMax(EndsOf(bs)) - SetMin(StartsOf(bs)) >= T

SomeSpanMatches(re, bs) ==
    \E i \in 1..Len(NonNilSpans(bs)) :
        MatchString(re, Deref(NonNilSpans(bs)[i]).Name)

IsPrefix(s, t) == Len(s) <= Len(t) /\ SubSeq(t, 1, Len(s)) = s

Returned == pc = "done"

(* ------------------------------------------------------------------ *)
(* Properties                                                          *)
(* ------------------------------------------------------------------ *)

\* C1: when a minimum duration T is configured, Evaluate treats the
\* duration criterion as satisfied iff maxEnd > minStart and
\* maxEnd - minStart >= T, minStart and maxEnd being the minimum start and
\* the maximum end over all non-null spans of all batches.
C1_DurationWindow ==
    (Returned /\ Deref(df).minDurationMicros # Nil) =>
        (cond.minDurationConditionMet
            <=> WindowAtLeast(batches, Deref(Deref(df).minDurationMicros)))

\* C2: the spanCount compared with the minimum-span-count threshold is the
\* number of non-null spans over all batches, and the span-count criterion
\* is satisfied iff that number is >= the threshold.
C2_NullSpansNotCounted ==
    (Returned /\ Deref(df).minNumberOfSpans # Nil) =>
        /\ scan.spanCount = Len(NonNilSpans(batches))
        /\ cond.minSpanCountConditionMet
             <=> Len(NonNilSpans(batches)) >= Deref(Deref(df).minNumberOfSpans)

\* C3: Evaluate returns Sampled iff every configured sub-criterion is
\* satisfied (a match was found; the tracked window is positive and at
\* least the threshold; spanCount is at least the threshold), NotSampled
\* otherwise; an unconfigured criterion never causes NotSampled; the
\* returned error is nil.
C3_SampledIffAllConfigured ==
    Returned =>
        LET f == Deref(df)
            opOK  == f.operationRe # Nil => scan.matchingOperationFound
            durOK == f.minDurationMicros # Nil =>
                        /\ scan.maxEndTime > scan.minStartTime
                        /\ scan.maxEndTime - scan.minStartTime
                              >= Deref(f.minDurationMicros)
            cntOK == f.minNumberOfSpans # Nil =>
                        scan.spanCount >= Deref(f.minNumberOfSpans)
        IN /\ result.decision \in Decisions
           /\ result.decision = Sampled <=> (opOK /\ durOK /\ cntOK)
           /\ result.err = NoErr

\* C3 witness: Sampled is returned by a policy with only the duration
\* criterion configured, and NotSampled is not forced by the other two.
C3_Witness ==
    /\ Returned
    /\ result.decision = Sampled
    /\ Deref(df).operationRe = Nil
    /\ Deref(df).minNumberOfSpans = Nil
    /\ Len(batches) >= 1

\* C4: with a pattern configured the operation-name criterion is satisfied
\* iff some non-null span of some batch matches, wherever it is; and the
\* scan goes on after the match: every batch is visited, and the span
\* count and the duration window are the ones the same scan yields with
\* no pattern configured.
C4_MatchAnywhere ==
    (Returned /\ Deref(df).operationRe # Nil) =>
        LET f == Deref(df)
            noPat == ScanBatches([f EXCEPT !.operationRe = Nil], ScanInit,
                                 batches, 1)
        IN /\ cond.operationNameConditionMet
                <=> SomeSpanMatches(Deref(f.operationRe), batches)
           /\ bi = Len(batches) + 1
           /\ scan.spanCount = noPat.spanCount
           /\ scan.minStartTime = noPat.minStartTime
           /\ scan.maxEndTime = noPat.maxEndTime

\* C4 witness: the only matching span is the middle one of the second
\* batch, with non-matching spans before and after it, and the duration
\* window still reaches the span that follows the match.
C4_Witness ==
    /\ Returned
    /\ Deref(df).operationRe = Ptr(PatAnchored)
    /\ Deref(df).minDurationMicros # Nil
    /\ batches = <<BatchB, BatchDBA>>
    /\ cond.operationNameConditionMet
    /\ scan.spanCount = 4
    /\ scan.minStartTime = 0

\* C5: whatever appends interleave with an Evaluate call, the batch list it
\* works on is a prefix (of whole batches) of the aggregate's list, and the
\* returned decision is the one a sequential Evaluate gives on that prefix.
C5_SnapshotDecision ==
    /\ pc \in {"copied", "scan", "done"} => IsPrefix(batches, ReceivedBatches)
    /\ Returned => result = EvaluateSeq(Deref(df), batches)

\* C5 witness: batches were appended after the copy, and the decision on
\* the grown list would differ.
C5_Witness ==
    /\ Returned
    /\ Len(batches) >= 1
    /\ Len(batches) < Len(ReceivedBatches)
    /\ result # EvaluateSeq(Deref(df), ReceivedBatches)

\* C6: EvaluateSecondChance and OnDroppedSpans return NotSampled and a nil
\* error, whatever the aggregate, the configuration and the earlier calls.
C6_HooksNotSampled ==
    hook.op \in {"EvaluateSecondChance", "OnDroppedSpans"} =>
        hook.decision = NotSampled /\ hook.err = NoErr

\* C6 witness: EvaluateSecondChance was called on an aggregate on which
\* Evaluate has just returned Sampled.
C6_Witness ==
    /\ hook.op = "EvaluateSecondChance"
    /\ hook.decision = NotSampled
    /\ Returned
    /\ batches = ReceivedBatches
    /\ result.decision = Sampled

\* C7: an OnLateArrivingSpans call returns a nil error and changes neither
\* the policy nor the aggregate nor a running Evaluate, so that Evaluate
\* and EvaluateSecondChance return afterwards what they would have
\* returned without it.
C7_LateNoEffect ==
    [][ (hook'.op = "OnLateArrivingSpans" /\ hook'.tick # hook.tick) =>
          /\ hook'.err = NoErr
          /\ df' = df
          /\ ReceivedBatches' = ReceivedBatches
          /\ <<pc, batches, bi, scan, cond, result, mutex>>'
                = <<pc, batches, bi, scan, cond, result, mutex>>
          /\ EvaluateSeq(Deref(df'), ReceivedBatches')
                = EvaluateSeq(Deref(df), ReceivedBatches)
          /\ SecondChanceResult(Deref(df'), ReceivedBatches')
                = SecondChanceResult(Deref(df), ReceivedBatches) ]_vars

\* C7 witness: OnLateArrivingSpans was called after Evaluate returned
\* Sampled on the whole aggregate.
C7_Witness ==
    /\ hook.op = "OnLateArrivingSpans"
    /\ Returned
    /\ batches = ReceivedBatches
    /\ Len(batches) >= 1
    /\ result.decision = Sampled

\* C8: NewSpanPropertiesFilter returns an evaluator and no error iff at
\* least one criterion is set and the pattern, when given, compiles; with
\* none set the error is "at least one property must be defined"; with an
\* invalid pattern it is the compile error, whatever else is set; a failure
\* returns no evaluator.
C8_Construction ==
    args # Nil =>
        LET a == Deref(args)
            given == a.operationNamePattern # Nil
            compiles == given => Compile(Deref(a.operationNamePattern)).err = NoErr
            anySet == given \/ a.minDurationMicros # Nil
                      \/ a.minNumberOfSpans # Nil
        IN /\ (df # Nil /\ newErr = NoErr) <=> (anySet /\ compiles)
           /\ df = Nil <=> newErr # NoErr
           /\ ~anySet => newErr = ErrNoProperty
           /\ ~compiles => newErr = Compile(Deref(a.operationNamePattern)).err
           /\ df # Nil =>
                /\ Deref(df).minDurationMicros = a.minDurationMicros
                /\ Deref(df).minNumberOfSpans = a.minNumberOfSpans
                /\ Deref(df).operationRe # Nil <=> given

\* C8 witness: an invalid pattern together with both thresholds.
C8_Witness ==
    /\ args # Nil
    /\ Deref(args).operationNamePattern = Ptr(PatInvalid)
    /\ Deref(args).minDurationMicros # Nil
    /\ Deref(args).minNumberOfSpans # Nil
    /\ df = Nil
    /\ newErr = ErrMissingParen

\* C9: Evaluate holds the aggregate's lock for the copy only: while it
\* scans, computes or has returned it does not hold the lock, so only the
\* ingestion path can then hold it; and a lock that is held is released.
C9_LockOnlyForCopy ==
    /\ [](pc \in {"idle", "scan", "done"} => mutex # "eval")
    /\ [](mutex = "eval" => pc \in {"locked", "copied"})
    /\ (mutex # Free) ~> (mutex = Free)

\* C9 witness: the ingestion path holds the lock while Evaluate is in the
\* middle of its scan.
C9_Witness ==
    /\ pc = "scan"
    /\ bi <= Len(batches)
    /\ mutex = "ingest"

\* C10: if Evaluate returns Sampled on an aggregate, it returns Sampled on
\* every aggregate obtained from it by appending further batches.
C10_Monotone ==
    Returned =>
        \A k \in 0..Len(batches) :
            EvaluateSeq(Deref(df), SubSeq(batches, 1, k)).decision = Sampled
                => result.decision = Sampled

====
